---- MODULE Spec2Model ----
(***************************************************************************)
(* A model of the medication reminder bot of src/main.py: the intake       *)
(* dialogues (aiogram FSM handlers), the SQLite tables they write, and the  *)
(* background reminder_loop with its time matching and its dedup lookup.    *)
(*                                                                         *)
(* Texts are tuples of one-character strings, so that strip, the regular   *)
(* expressions, split/join and SQL LIKE are computed character by          *)
(* character, as the code computes them.                                   *)
(***************************************************************************)
EXTENDS Integers, Sequences, FiniteSets, TLC

VARIABLES
    fsm_state,          \* MemoryStorage: user -> current State (or "none")
    fsm_data,           \* MemoryStorage: user -> captured fields (a function on a set of keys)
    users,              \* table users: user_id -> name
    medications,        \* table medications: set of rows [id, user_id, name, dose, times]
    next_med_id,        \* AUTOINCREMENT counter of medications
    glucose_logs,       \* table glucose_logs: sequence of rows
    pressure_logs,      \* table pressure_logs: sequence of rows
    med_logs,           \* table med_logs: set of rows [id, user_id, med_name, taken_at]
    clock,              \* the wall clock, UTC, in seconds
    tz,                 \* offset of USER_TIMEZONE from UTC, in minutes
    process,            \* the process: USE_WEBHOOK and how far asyncio.run(main) has got
    pc,                 \* reminder_loop: "sleep", "send" (awaiting send_message), "dead",
                        \* or "cancelled" (cancelled and waited for by asyncio.run)
    wake_at,            \* reminder_loop: the instant asyncio.sleep returns
    last_check_minute,  \* reminder_loop local
    now,                \* reminder_loop local: local time sampled at the start of the tick
    meds,               \* reminder_loop local: the fetched rows
    idx,                \* reminder_loop: position in meds of the row being delivered
    sent,               \* history: the send_reminder invocations, in order
    tick,               \* history: what the current/last tick did
    started,            \* history: user -> the flow last triggered, the submits it took
                        \* and the fields they captured
    ev                  \* history: the last update handled by the dispatcher

vars == << fsm_state, fsm_data, users, medications, next_med_id, glucose_logs,
           pressure_logs, med_logs, clock, tz, process, pc, wake_at, last_check_minute,
           now, meds, idx, sent, tick, started, ev >>

fsm_vars   == << fsm_state, fsm_data, started >>
db_vars    == << users, medications, next_med_id, glucose_logs, pressure_logs, med_logs >>
loop_vars  == << pc, wake_at, last_check_minute, now, meds, idx, sent, tick >>

(***************************************************************************)
(* Characters and strings                                                  *)
(***************************************************************************)
DigitChars == <<"0", "1", "2", "3", "4", "5", "6", "7", "8", "9">>

\* \d of the regular expressions
IsDigit(c) == \E i \in 1..10 : DigitChars[i] = c

\* int() of one digit
DigitVal(c) == (CHOOSE i \in 1..10 : DigitChars[i] = c) - 1

\* \s of the regular expressions, and the characters str.strip() removes
IsSpace(c) == c = " "

RECURSIVE lstrip(_)
lstrip(s) == IF s # <<>> /\ IsSpace(Head(s)) THEN lstrip(Tail(s)) ELSE s

RECURSIVE rstrip(_)
rstrip(s) ==
    IF s # <<>> /\ IsSpace(s[Len(s)]) THEN rstrip(SubSeq(s, 1, Len(s) - 1)) ELSE s

\* str.strip()
strip(s) == rstrip(lstrip(s))

\* s[i] is a digit (FALSE past the end of s)
DigitAt(s, i) == i <= Len(s) /\ IsDigit(s[i])

\* s[i] is the character c (FALSE past the end of s)
CharAt(s, i, c) == i <= Len(s) /\ s[i] = c

\* int() of a string of digits
RECURSIVE int(_)
int(s) == IF s = <<>> THEN 0 ELSE 10 * int(SubSeq(s, 1, Len(s) - 1)) + DigitVal(s[Len(s)])

\* f"{n:02d}"
format02d(n) ==
    IF n < 10 THEN <<"0", DigitChars[n + 1]>>
    ELSE <<DigitChars[(n \div 10) + 1], DigitChars[(n % 10) + 1]>>

\* ",".join(parts)
RECURSIVE join(_)
join(parts) ==
    IF parts = <<>> THEN <<>>
    ELSE IF Len(parts) = 1 THEN parts[1]
    ELSE parts[1] \o <<",">> \o join(Tail(parts))

\* s.split(","): always at least one part, possibly empty
RECURSIVE split(_)
split(s) ==
    IF \A i \in 1..Len(s) : s[i] # ","
    THEN <<s>>
    ELSE LET k == CHOOSE i \in 1..Len(s) : s[i] = "," /\ \A j \in 1..(i - 1) : s[j] # ","
         IN  <<SubSeq(s, 1, k - 1)>> \o split(SubSeq(s, k + 1, Len(s)))

\* SQLite folds ASCII letters for LIKE
Fold(c) == IF c = "A" THEN "a" ELSE IF c = "B" THEN "b" ELSE c

\* SQL: s LIKE p  (% any run of characters, _ any one character)
RECURSIVE Like(_, _)
Like(s, p) ==
    IF p = <<>> THEN s = <<>>
    ELSE IF Head(p) = "%"
         THEN Like(s, Tail(p)) \/ (s # <<>> /\ Like(Tail(s), p))
    ELSE IF Head(p) = "_"
         THEN s # <<>> /\ Like(Tail(s), Tail(p))
    ELSE s # <<>> /\ Fold(Head(s)) = Fold(Head(p)) /\ Like(Tail(s), Tail(p))

Range(f) == {f[i] : i \in DOMAIN f}

Max(a, b) == IF a >= b THEN a ELSE b

Min(a, b) == IF a <= b THEN a ELSE b

(***************************************************************************)
(* Utilities (src/main.py 168-184)                                         *)
(***************************************************************************)
\* re.findall(r'(\d{1,2}):(\d{2})', s) from position i: the pairs <<h, m>>
RECURSIVE findall_times(_, _)
findall_times(s, i) ==
    IF i > Len(s) THEN <<>>
    ELSE IF DigitAt(s, i) /\ DigitAt(s, i + 1) /\ CharAt(s, i + 2, ":")
            /\ DigitAt(s, i + 3) /\ DigitAt(s, i + 4)
         THEN << <<SubSeq(s, i, i + 1), SubSeq(s, i + 3, i + 4)>> >>
              \o findall_times(s, i + 5)
    ELSE IF DigitAt(s, i) /\ CharAt(s, i + 1, ":")
            /\ DigitAt(s, i + 2) /\ DigitAt(s, i + 3)
         THEN << <<SubSeq(s, i, i), SubSeq(s, i + 2, i + 3)>> >>
              \o findall_times(s, i + 4)
    ELSE findall_times(s, i + 1)

parse_times(times_str) ==
    LET matches == findall_times(times_str, 1)
    IN  [k \in 1..Len(matches) |->
            format02d(int(matches[k][1])) \o <<":">> \o matches[k][2]]

validate_input_length(text, max_length) == Len(strip(text)) <= max_length

\* text.replace(",", ".")
replace_comma(text) == [i \in DOMAIN text |-> IF text[i] = "," THEN "." ELSE text[i]]

\* the end of the run of digits of s that starts at position i (i - 1 if s[i] is none)
RECURSIVE digits_end(_, _)
digits_end(s, i) == IF DigitAt(s, i) THEN digits_end(s, i + 1) ELSE i - 1

\* the position of the first character at or after i that is not white space
RECURSIVE skip_space(_, _)
skip_space(s, i) == IF i <= Len(s) /\ IsSpace(s[i]) THEN skip_space(s, i + 1) ELSE i

\* re.findall(r"(\d+\.?\d*)", s)[0]: <<integer digits, fraction digits>>, or <<>>
\* when nothing matches
first_number(s) ==
    IF \A i \in 1..Len(s) : ~IsDigit(s[i]) THEN <<>>
    ELSE LET i == CHOOSE k \in 1..Len(s) : IsDigit(s[k]) /\ \A j \in 1..(k - 1) : ~IsDigit(s[j])
             e == digits_end(s, i)
         IN  IF CharAt(s, e + 1, ".")
             THEN <<SubSeq(s, i, e), SubSeq(s, e + 2, digits_end(s, e + 2))>>
             ELSE <<SubSeq(s, i, e), <<>>>>

\* float() of a match, in hundredths (the inputs have at most two decimals)
float100(match) ==
    int(match[1]) * 100
    + (IF Len(match[2]) = 0 THEN 0
       ELSE IF Len(match[2]) = 1 THEN int(match[2]) * 10
       ELSE int(SubSeq(match[2], 1, 2)))

\* int(mmol_to_mg(value)) = int(round(value * 18, 1)), value in hundredths
mmol_to_mg(value100) ==
    LET x      == value100 * 18
        tenths == IF x % 10 >= 5 THEN (x \div 10) + 1 ELSE x \div 10
    IN  tenths \div 10

\* (\d{2,3})\s*/\s*(\d{2,3}) matched at position i: <<sys, dia>> as digit strings, or <<>>
pressure_at(s, i) ==
    LET n1 == Min(digits_end(s, i) - i + 1, 3)
        p  == skip_space(s, i + n1)
        q  == skip_space(s, p + 1)
        n2 == Min(digits_end(s, q) - q + 1, 3)
    IN  IF n1 >= 2 /\ CharAt(s, p, "/") /\ n2 >= 2
        THEN <<SubSeq(s, i, i + n1 - 1), SubSeq(s, q, q + n2 - 1)>>
        ELSE <<>>

\* re.findall(r"(\d{2,3})\s*/\s*(\d{2,3})", s)[0], or <<>> when nothing matches
first_pressure(s) ==
    IF \A i \in 1..Len(s) : pressure_at(s, i) = <<>> THEN <<>>
    ELSE pressure_at(s, CHOOSE k \in 1..Len(s) :
                            pressure_at(s, k) # <<>> /\ \A j \in 1..(k - 1) : pressure_at(s, j) = <<>>)

(***************************************************************************)
(* Time.  A datetime is a number of seconds since the start of day 0: the  *)
(* wall clock of the zone it was taken in.  strftime("%Y-%m-%d %H:%M:%S")  *)
(* is the tuple <<day, hour, minute, second>>; texts of that one format    *)
(* compare as the tuples do.                                               *)
(***************************************************************************)
SecondsPerMinute == 60

DedupMinutes == 15

FallbackSleep == 60

DaySeconds == 24 * 60 * 60

\* datetime.now(USER_TIMEZONE)
get_current_user_time == clock + tz * 60

\* strftime("%H:%M")
format_time_for_display(dt) ==
    format02d((dt % DaySeconds) \div 3600) \o <<":">> \o format02d((dt % 3600) \div 60)

\* strftime("%Y-%m-%d %H:%M:%S")
strftime(dt) ==
    << dt \div DaySeconds, (dt % DaySeconds) \div 3600, (dt % 3600) \div 60, dt % 60 >>

\* SQLite's CURRENT_TIMESTAMP: the UTC clock, whatever USER_TIMEZONE is
CURRENT_TIMESTAMP == strftime(clock)

\* SQL: a > b on two texts of the timestamp format
RECURSIVE TextGreater(_, _)
TextGreater(a, b) ==
    /\ a # <<>>
    /\ b # <<>>
    /\ \/ Head(a) > Head(b)
       \/ Head(a) = Head(b) /\ TextGreater(Tail(a), Tail(b))

(***************************************************************************)
(* The scheduler (src/main.py 663-723)                                     *)
(***************************************************************************)
\* the rows of a table, in rowid order
RECURSIVE SeqById(_)
SeqById(rows) ==
    IF rows = {} THEN <<>>
    ELSE LET r == CHOOSE x \in rows : \A y \in rows : x.id <= y.id
         IN  <<r>> \o SeqById(rows \ {r})

\* a variant whose pattern is anchored at the start of the column: LIKE 'HH:MM%'
fetch_meds_anchored(current_minute) ==
    SeqById({m \in medications : Like(m.times, current_minute \o <<"%">>)})

\* SELECT ... FROM medications WHERE times LIKE '%HH:MM%'
fetch_meds(current_minute) ==
    SeqById({m \in medications : Like(m.times, <<"%">> \o current_minute \o <<"%">>)})

\* [t.strip() for t in med['times'].split(",")]
times_list(med) ==
    LET parts == split(med.times) IN [k \in DOMAIN parts |-> strip(parts[k])]

\* a variant that looks at the first entry of the list only
is_due_first_entry(med, current_minute) == times_list(med)[1] = current_minute

\* current_minute in times_list
is_due(med, current_minute) == current_minute \in Range(times_list(med))

\* SELECT id FROM med_logs WHERE user_id = ? AND med_name LIKE 'name%' AND taken_at > ?
\* with ? = (now - 15 min).strftime(...): c.fetchone() is not None
recent_ack(med, nowv) ==
    \E l \in med_logs :
        /\ l.user_id = med.user_id
        /\ Like(l.med_name, med.name \o <<"%">>)
        /\ TextGreater(l.taken_at, strftime(nowv - DedupMinutes * 60))

\* a variant without the try/except around bot.send_message
send_reminder_uncaught(delivered) == [result |-> delivered, raised |-> ~delivered]

\* send_reminder: the delivery's outcome is returned, never raised
send_reminder(delivered) == [result |-> delivered, raised |-> FALSE]

\* a variant whose except branch goes round the loop again at once
reminder_loop_retries_at_once(t) == [pc |-> "sleep", wake_at |-> t]

\* a variant whose except branch lets the exception end the task
reminder_loop_reraises(t) == [pc |-> "dead", wake_at |-> t]

\* the except branch of reminder_loop, entered at instant t
reminder_loop_except(t) == [pc |-> "sleep", wake_at |-> t + FallbackSleep]

\* the first row at or after position i that is due; 0 if there is none
RECURSIVE first_due(_, _, _)
first_due(rows, i, cm) ==
    IF i > Len(rows) THEN 0
    ELSE IF is_due(rows[i], cm) THEN i
    ELSE first_due(rows, i + 1, cm)

\* the first row at or after position i that send_reminder is called for; 0 if none
RECURSIVE next_send(_, _, _)
next_send(rows, i, nowv) ==
    IF i > Len(rows) THEN 0
    ELSE IF is_due(rows[i], format_time_for_display(nowv)) /\ ~recent_ack(rows[i], nowv)
         THEN i
    ELSE next_send(rows, i + 1, nowv)

\* the except branch: log, sleep 60, go round the loop again
loop_error(cause, n, after, sentv) ==
    /\ pc' = reminder_loop_except(clock).pc
    /\ wake_at' = reminder_loop_except(clock).wake_at
    /\ idx' = 0
    /\ sent' = sentv
    /\ tick' = [state |-> "error", cause |-> cause, n |-> n,
                suppressed |-> {}, after_error |-> after]

\* the for loop over the fetched rows from position i, up to the next await
scan_from(rows, i, nowv, fail, sup, n, after, sentv) ==
    LET cm   == format_time_for_display(nowv)
        j    == next_send(rows, i, nowv)
        upto == IF j = 0 THEN Len(rows) ELSE j - 1
        skip == {rows[k].id : k \in {k \in i..upto : is_due(rows[k], cm)}}
    IN  IF fail = "dedup"
        THEN /\ first_due(rows, i, cm) # 0
             /\ loop_error("dedup", n, after, sentv)
        ELSE IF j # 0
        THEN /\ pc' = "send"
             /\ idx' = j
             /\ wake_at' = wake_at
             /\ sent' = Append(sentv, [med_id |-> rows[j].id, user_id |-> rows[j].user_id,
                                      at |-> nowv, ok |-> "pending"])
             /\ tick' = [state |-> "scanning", cause |-> "none", n |-> n,
                         suppressed |-> sup \cup skip, after_error |-> after]
        ELSE /\ pc' = "sleep"
             /\ idx' = 0
             /\ wake_at' = clock + Max(1, SecondsPerMinute - (nowv % 60))
             /\ sent' = sentv
             /\ tick' = [state |-> "done", cause |-> "none", n |-> n,
                         suppressed |-> sup \cup skip, after_error |-> after]

\* asyncio.sleep returns: one pass of the while loop, up to its next await
reminder_loop(fail) ==
    /\ pc = "sleep"
    /\ clock = wake_at
    /\ LET nowv  == get_current_user_time
           cm    == format_time_for_display(nowv)
           n     == tick.n + 1
           after == tick.state = "error"
       IN  IF fail = "now"
           THEN /\ loop_error("now", n, after, sent)
                /\ UNCHANGED << now, last_check_minute, meds >>
           ELSE /\ now' = nowv
                /\ IF cm = last_check_minute
                   THEN /\ fail = "none"
                        /\ pc' = "sleep"
                        /\ wake_at' = clock + Max(1, SecondsPerMinute - (nowv % 60))
                        /\ tick' = [state |-> "skipped", cause |-> "none", n |-> n,
                                    suppressed |-> {}, after_error |-> after]
                        /\ UNCHANGED << last_check_minute, meds, idx, sent >>
                   ELSE /\ last_check_minute' = cm
                        /\ IF fail = "fetch"
                           THEN /\ loop_error("fetch", n, after, sent)
                                /\ meds' = meds
                           ELSE /\ meds' = fetch_meds(cm)
                                /\ scan_from(fetch_meds(cm), 1, nowv, fail, {}, n, after, sent)
    /\ UNCHANGED << fsm_vars, db_vars, clock, tz, process, ev >>

\* bot.send_message returns or raises: send_reminder returns and the for loop goes on
send_reminder_return(delivered, fail) ==
    /\ pc = "send"
    /\ LET r    == send_reminder(delivered)
           done == [sent EXCEPT ![Len(sent)].ok = IF delivered THEN "ok" ELSE "failed"]
       IN  IF r.raised
           THEN /\ fail = "none"
                /\ loop_error("delivery", tick.n, tick.after_error, done)
           ELSE scan_from(meds, idx + 1, now, fail, tick.suppressed, tick.n,
                          tick.after_error, done)
    /\ UNCHANGED << fsm_vars, db_vars, clock, tz, process, last_check_minute, now, meds, ev >>

(***************************************************************************)
(* Bounds and inputs                                                       *)
(***************************************************************************)
\* half minutes of wall-clock time a run of the scheduler covers
MaxHalfMinutes == 3

\* rows of med_logs
MaxAcks == 1

\* chat ids
Users == {1, 2}

\* offsets of USER_TIMEZONE in minutes: UTC and Europe/Moscow, the default
Zones == {0, 180}

\* how far one step of the clock moves it, in seconds
ClockSteps == {30}

\* local time at process start: 07:59:30 of day 1
LocalStarts == {DaySeconds + 7 * 3600 + 59 * 60 + 30}

\* the end of the run, in local time
LocalEnd == DaySeconds + 7 * 3600 + 59 * 60 + 30 + MaxHalfMinutes * 30

T0759 == <<"0", "7", ":", "5", "9">>

T0800 == <<"0", "8", ":", "0", "0">>

Row(id, user_id, name, dose, times) ==
    [id |-> id, user_id |-> user_id, name |-> name, dose |-> dose, times |-> times]

\* medications tables left in DB_PATH by earlier runs of the bot
StoredTables ==
    { { Row(1, 1, <<"A">>, <<"1">>, join(<<T0759, T0800>>)),
        Row(2, 2, <<"B">>, <<"2">>, join(<<T0800, T0800>>)) },
      { Row(1, 1, <<"A">>, <<"1">>, T0800),
        Row(2, 1, <<"A">>, <<"2">>, join(<<T0800, T0759>>)) } }

EmptyData == [k \in {} |-> <<>>]

\* asyncio.run(main_webhook()) or asyncio.run(main_polling()) after on_startup
Running(use_webhook) == [use_webhook |-> use_webhook, state |-> "running"]

NoFlow == [flow |-> "none", n |-> 0, replaced |-> FALSE, taken |-> EmptyData]

NoEvent == [op |-> "none", user |-> 0, text |-> <<>>, arg |-> 0, fail |-> "none"]

(***************************************************************************)
(* Callback handlers the scheduler's messages lead to                      *)
(***************************************************************************)
\* callback "taken_<med_id>": the button of a reminder that reached user u
med_taken(u, med_id) ==
    /\ \E k \in 1..Len(sent) :
           sent[k].med_id = med_id /\ sent[k].user_id = u /\ sent[k].ok = "ok"
    /\ Cardinality(med_logs) < MaxAcks
    /\ LET found == {m \in medications : m.id = med_id}
       IN  IF found # {}
           THEN LET med == CHOOSE m \in found : TRUE
                IN  med_logs' = med_logs \cup
                        {[id |-> Cardinality(med_logs) + 1, user_id |-> u,
                          med_name |-> med.name \o <<" ">> \o med.dose,
                          taken_at |-> CURRENT_TIMESTAMP]}
           ELSE med_logs' = med_logs
    /\ UNCHANGED << fsm_vars, users, medications, next_med_id, glucose_logs,
                    pressure_logs, clock, tz, process, loop_vars >>

\* a variant that looks the row up by its id alone
delete_med_any_owner(u, med_id, fail) ==
    /\ LET found == {m \in medications : m.id = med_id}
       IN  IF found # {} /\ fail = "none"
           THEN medications' = {m \in medications : m.id # med_id}
           ELSE medications' = medications
    /\ UNCHANGED << fsm_vars, users, next_med_id, glucose_logs, pressure_logs,
                    med_logs, clock, tz, process, loop_vars >>

\* callback "del_med_<med_id>"; the reply callback.answer is awaited inside the
\* with block: when it raises, the DELETE is rolled back
delete_med(u, med_id, fail) ==
    /\ LET found == {m \in medications : m.id = med_id /\ m.user_id = u}
       IN  IF found # {} /\ fail = "none"
           THEN medications' = {m \in medications : m.id # med_id}
           ELSE medications' = medications
    /\ UNCHANGED << fsm_vars, users, next_med_id, glucose_logs, pressure_logs,
                    med_logs, clock, tz, process, loop_vars >>

\* time passes; a sleeping loop is woken at wake_at, not later
AdvanceClock(d) ==
    /\ pc = "sleep" => clock < wake_at
    /\ clock' = IF pc = "sleep" THEN Min(clock + d, wake_at) ELSE clock + d
    /\ clock' + tz * 60 <= LocalEnd
    /\ UNCHANGED << fsm_vars, db_vars, tz, process, loop_vars, ev >>

(***************************************************************************)
(* The scheduler running over a stored table                               *)
(***************************************************************************)
InitLoop ==
    /\ fsm_state = [u \in Users |-> "none"]
    /\ fsm_data = [u \in Users |-> EmptyData]
    /\ started = [u \in Users |-> NoFlow]
    /\ users = [u \in Users |-> <<"U">>]
    /\ medications \in StoredTables
    /\ next_med_id = 3
    /\ glucose_logs = <<>>
    /\ pressure_logs = <<>>
    /\ med_logs = {}
    /\ tz \in Zones
    /\ \E start \in LocalStarts : clock = start - tz * 60
    /\ pc = "sleep"
    /\ wake_at = clock
    /\ last_check_minute = <<>>
    /\ now = 0
    /\ meds = <<>>
    /\ idx = 0
    /\ sent = <<>>
    /\ tick = [state |-> "none", cause |-> "none", n |-> 0, suppressed |-> {},
               after_error |-> FALSE]
    /\ ev = NoEvent

InitSched == InitLoop /\ process = Running(FALSE)

LoopStep == \E fail \in {"none", "now", "fetch", "dedup"} : reminder_loop(fail)

DeliveryStep ==
    \E delivered \in BOOLEAN, fail \in {"none", "dedup"} :
        send_reminder_return(delivered, fail)

TimeStep == \E d \in ClockSteps : AdvanceClock(d)

AckStep == \E u \in Users, med_id \in 1..2 : med_taken(u, med_id) /\ UNCHANGED ev

DeleteStep ==
    \E u \in Users, med_id \in 1..2, fail \in {"none", "reply"} :
        delete_med(u, med_id, fail) /\ UNCHANGED ev

NextSched == LoopStep \/ DeliveryStep \/ TimeStep \/ AckStep \/ DeleteStep

SpecSched == InitSched /\ [][NextSched]_vars

\* time does not stop, and the event loop resumes reminder_loop when its sleep is over
SpecSchedFair ==
    /\ SpecSched
    /\ WF_vars(LoopStep)
    /\ WF_vars(TimeStep)

(***************************************************************************)
(* Claims about the scheduler                                              *)
(***************************************************************************)
\* the number of send_reminder invocations for a medication made by the scan of
\* local minute k (minutes counted from the start of day 0)
Invocations(med_id, k) ==
    Cardinality({i \in 1..Len(sent) : sent[i].med_id = med_id /\ sent[i].at \div 60 = k})

\* the configured times of a stored row
Configured(m) == Range(split(m.times))

\* the local minutes the run touches
AllMinutes == ((LocalEnd \div 60) - MaxHalfMinutes)..(LocalEnd \div 60)

\* the local minutes that lie wholly inside the run
RunMinutes == {k \in AllMinutes : \A start \in LocalStarts : k * 60 >= start}

ToSeconds(ts) == ts[1] * DaySeconds + ts[2] * 3600 + ts[3] * 60 + ts[4]

\* the acknowledgements the lookup for row m is keyed to: the owner's, whose
\* med_name begins with the row's name
AcksOf(m) ==
    {l \in med_logs : l.user_id = m.user_id /\ Like(l.med_name, m.name \o <<"%">>)}

\* C2 as stated: in every zone, the dedup lookup of a tick at instant t finds an
\* acknowledgement of the event iff one was recorded at some T with T <= t < T + 15 min;
\* so no reminder of the event is sent by a tick inside that window.
C2_DedupWindow ==
    \A m \in medications :
        /\ recent_ack(m, get_current_user_time)
           <=> \E l \in AcksOf(m) : clock - ToSeconds(l.taken_at) < DedupMinutes * 60
        /\ \A i \in 1..Len(sent) : \A l \in AcksOf(m) :
               sent[i].med_id = m.id
               => ~ ( /\ ToSeconds(l.taken_at) < sent[i].at - tz * 60
                      /\ sent[i].at - tz * 60 < ToSeconds(l.taken_at) + DedupMinutes * 60 )

\* C4: when a scan has run to its end without a store error, every fetched row that
\* was due was either suppressed by the dedup lookup or had send_reminder invoked in
\* this scan, whatever became of the deliveries before it.
C4_DeliveryFailureIsolated ==
    (pc = "sleep" /\ tick.state \in {"done", "error"} /\ tick.cause \in {"none", "delivery"})
    => \A i \in 1..Len(meds) :
           format_time_for_display(now) \in Configured(meds[i])
           => \/ meds[i].id \in tick.suppressed
              \/ \E k \in 1..Len(sent) : sent[k].med_id = meds[i].id /\ sent[k].at = now

\* C4 witness: in one finished scan a delivery failed and a later row was still sent
C4_Witness ==
    /\ tick.state = "done"
    /\ \E i, j \in 1..Len(sent) :
           /\ i < j
           /\ sent[i].at = now /\ sent[j].at = now
           /\ sent[i].ok = "failed"
           /\ sent[j].ok = "ok"

\* the ticks a run can number
TickNumbers == 0..(MaxHalfMinutes + 2)

\* C5: an exception in a tick never ends reminder_loop: the loop sleeps the fallback
\* and, if the run lasts that long, begins another tick, which scans (the minute
\* has changed, so it is not skipped).
C5_LoopSurvivesErrors ==
    /\ [](pc # "dead")
    /\ [](tick.after_error => tick.state # "skipped")
    /\ \A n \in TickNumbers :
           (tick.state = "error" /\ tick.n = n /\ wake_at + tz * 60 <= LocalEnd)
           ~> (tick.n > n)

\* C5 witness: the tick after a failed tick has scanned to its end
C5_Witness == tick.after_error /\ tick.state = "done" /\ Len(meds) > 0

(***************************************************************************)
(* The scheduler over one whole day: every sleep ends on time, every       *)
(* delivery succeeds and nobody acknowledges, so that each of the 1440     *)
(* minutes is scanned and the only thing that decides a send is the time   *)
(* matching of lines 690-706                                               *)
(***************************************************************************)
\* what the owners typed at the times prompt, and the times of day they meant
SweepCases ==
    << [text |-> <<"0", "8", ":", "0", "0", ",", " ", "2", "0", ":", "0", "0">>,
        at |-> {<<8, 0>>, <<20, 0>>}],
       [text |-> <<"8", ":", "0", "5", ",", "0", ":", "0", "0">>,
        at |-> {<<8, 5>>, <<0, 0>>}],
       [text |-> <<"2", "3", ":", "5", "9", " ", "1", "2", ":", "3", "0">>,
        at |-> {<<23, 59>>, <<12, 30>>}],
       [text |-> <<"1", ":", "0", "8", ",", "0", "8", ":", "0", "1", ",", "0", "8", ":", "0", "1">>,
        at |-> {<<1, 8>>, <<8, 1>>}] >>

\* the row add_med_times stored for case k
SweepRow(k, u) == Row(k, u, <<"A">>, <<"1">>, join(parse_times(SweepCases[k].text)))

SweepTables == { {SweepRow(1, 1), SweepRow(2, 2)}, {SweepRow(3, 1), SweepRow(4, 1)} }

\* the sweep starts at 00:00:00 of day 1 and ends with day 1, local time
SweepStart == DaySeconds

SweepEnd == 2 * DaySeconds

InitSweep ==
    /\ fsm_state = [u \in Users |-> "none"]
    /\ fsm_data = [u \in Users |-> EmptyData]
    /\ started = [u \in Users |-> NoFlow]
    /\ users = [u \in Users |-> <<"U">>]
    /\ medications \in SweepTables
    /\ next_med_id = 5
    /\ glucose_logs = <<>>
    /\ pressure_logs = <<>>
    /\ med_logs = {}
    /\ tz \in Zones
    /\ process = Running(FALSE)
    /\ clock = SweepStart - tz * 60
    /\ pc = "sleep"
    /\ wake_at = clock
    /\ last_check_minute = <<>>
    /\ now = 0
    /\ meds = <<>>
    /\ idx = 0
    /\ sent = <<>>
    /\ tick = [state |-> "none", cause |-> "none", n |-> 0, suppressed |-> {},
               after_error |-> FALSE]
    /\ ev = NoEvent

SweepLoop == reminder_loop("none")

SweepDelivery == send_reminder_return(TRUE, "none")

\* asyncio.sleep lasts as long as it was asked to
SweepSleep ==
    /\ pc = "sleep"
    /\ clock < wake_at
    /\ wake_at + tz * 60 < SweepEnd
    /\ clock' = wake_at
    /\ UNCHANGED << fsm_vars, db_vars, tz, process, loop_vars, ev >>

NextSweep == SweepLoop \/ SweepDelivery \/ SweepSleep

SpecSweep == InitSweep /\ [][NextSweep]_vars

\* the times of day the owner of a stored row meant
ConfiguredAt(m) == SweepCases[m.id].at

\* send_reminder was called for row m by the scan made at local time t
InvokedAt(m, t) == \E i \in 1..Len(sent) : sent[i].med_id = m.id /\ sent[i].at = t

\* C3: at every minute of a 24-hour sweep and for every stored event, the scan
\* (LIKE prefilter, then membership in the comma-split list) takes the event
\* exactly when the hour and the minute of the scan are one of the event's
\* configured times
C3_ExactTimeMatch ==
    (pc = "sleep" /\ tick.state = "done") =>
        \A m \in medications :
            InvokedAt(m, now)
                <=> << (now % DaySeconds) \div 3600, (now % 3600) \div 60 >> \in ConfiguredAt(m)

\* the sweep has reached 23:59: the event of times 08:00 and 20:00 was taken at
\* those two minutes and at no other
C3_Witness ==
    /\ pc = "sleep" /\ tick.state = "done"
    /\ now = SweepStart + 23 * 3600 + 59 * 60
    /\ \E m \in medications :
          /\ ConfiguredAt(m) = {<<8, 0>>, <<20, 0>>}
          /\ {sent[i].at : i \in {j \in 1..Len(sent) : sent[j].med_id = m.id}}
                = {SweepStart + 8 * 3600, SweepStart + 20 * 3600}

(***************************************************************************)
(* The dialogues (src/main.py 225-564): MemoryStorage and the handlers      *)
(***************************************************************************)
\* rows the dialogues may add to medications
MaxMeds == 1

\* rows the dialogues may add to glucose_logs, and to pressure_logs
MaxReadings == 1

Chars(n, c) == [i \in 1..n |-> c]

TxtName == <<" ", "A", " ">>

TxtDose == <<"1">>

TxtLong51 == Chars(51, "x")

TxtLong101 == Chars(101, "x")

TxtTimes == <<"8", ":", "0", "0", ",", "0", "8", ":", "0", "0">>

TxtNoTimes == <<"a", "b", "c">>

TxtGlucose == <<"5", ",", "4">>

TxtGlucoseHigh == <<"5", "5">>

TxtPressure == <<"1", "2", "0", "/", "8", "0">>

TxtPressureHigh == <<"3", "0", "0", "/", "8", "0">>

TxtBlank == <<" ">>

\* what the users type at each prompt
OnboardingTexts == {TxtName, TxtLong51}

NameTexts == {TxtName, TxtLong101}

DoseTexts == {TxtDose, TxtLong51}

TimesTexts == {TxtTimes, TxtNoTimes}

GlucoseTexts == {TxtGlucose, TxtGlucoseHigh, TxtNoTimes}

PressureTexts == {TxtPressure, TxtPressureHigh, TxtNoTimes}

\* who uses what: user 1 goes through every dialogue, user 2 only logs glucose
NewUsers == {1}

MedUsers == {1}

GlucoseUsers == {1, 2}

PressureUsers == {1}

\* what goes wrong while a handler runs: "store" is an exception of the database
\* call, "reply" an exception of the handler's first message.answer (the
\* "Ошибка" answer of the except clause is then delivered)
Faults == {"none", "store", "reply"}

\* a trigger that leaves an active session alone
set_state_if_idle(u, st) == IF fsm_state[u] = "none" THEN [fsm_state EXCEPT ![u] = st] ELSE fsm_state

\* FSMContext.set_state: the state is replaced, the data is left as it is
set_state(u, st) == [fsm_state EXCEPT ![u] = st]

\* FSMContext.update_data(key=value)
\* a variant that keeps the value of a key the data already holds
update_data_setdefault(u, key, value) ==
    [fsm_data EXCEPT ![u] =
        [k \in (DOMAIN fsm_data[u]) \cup {key} |->
            IF k \in DOMAIN fsm_data[u] THEN fsm_data[u][k] ELSE value]]

update_data(u, key, value) ==
    [fsm_data EXCEPT ![u] =
        [k \in (DOMAIN fsm_data[u]) \cup {key} |-> IF k = key THEN value ELSE fsm_data[u][k]]]

\* a clear that resets the state only
state_clear_keeps_data(u) ==
    [state |-> [fsm_state EXCEPT ![u] = "none"], data |-> fsm_data]

\* FSMContext.clear(): no state, no data
state_clear(u) ==
    [state |-> [fsm_state EXCEPT ![u] = "none"], data |-> [fsm_data EXCEPT ![u] = EmptyData]]

\* "if not times" of add_med_times
times_rejected(times) == times = <<>>

\* "await message.answer(...); return" of a rejected input
Reject(u) == UNCHANGED << fsm_vars, db_vars >>

\* await state.clear()
Clear(u) ==
    /\ fsm_state' = state_clear(u).state
    /\ fsm_data' = state_clear(u).data
    /\ started' = [started EXCEPT ![u] = NoFlow]

\* the same rejection inside "try: ... except Exception: ... await state.clear()":
\* an exception of the rejection's message.answer reaches the except clause
RejectInTry(u, fail) ==
    IF fail = "reply"
    THEN Clear(u) /\ UNCHANGED db_vars
    ELSE Reject(u)

\* a flow is entered at its first prompt
Trigger(u, flow, st) ==
    /\ fsm_state' = set_state(u, st)
    /\ started' = [started EXCEPT ![u] = [flow |-> flow, n |-> 0,
                                           replaced |-> started[u].flow \notin {"none", flow},
                                           taken |-> EmptyData]]
    /\ UNCHANGED << fsm_data, db_vars >>

\* a field is captured and the next prompt follows
Advance(u, key, value, st) ==
    /\ fsm_data' = update_data(u, key, value)
    /\ fsm_state' = set_state(u, st)
    /\ started' = [started EXCEPT ![u].n = @ + 1,
                                  ![u].taken = [k \in (DOMAIN @) \cup {key} |->
                                                   IF k = key THEN value ELSE @[k]]]
    /\ UNCHANGED db_vars

\* /start
start(u, fail) ==
    /\ IF fail # "store" /\ u \notin DOMAIN users
       THEN Trigger(u, "Onboarding", "Onboarding:name")
       ELSE UNCHANGED << fsm_vars, db_vars >>
    /\ UNCHANGED << clock, tz, process, loop_vars >>

onboarding_name(u, text, fail) ==
    /\ fsm_state[u] = "Onboarding:name"
    /\ LET name == strip(text)
       IN  IF ~validate_input_length(name, 50)
           THEN Reject(u)
           ELSE IF fail = "store"
           THEN UNCHANGED << fsm_vars, db_vars >>
           ELSE /\ users' = [x \in (DOMAIN users) \cup {u} |->
                                IF x = u THEN name ELSE users[x]]
                /\ Clear(u)
                /\ UNCHANGED << medications, next_med_id, glucose_logs, pressure_logs,
                                med_logs >>
    /\ UNCHANGED << clock, tz, process, loop_vars >>

\* callback "add_med"
add_med_start(u) ==
    /\ Trigger(u, "AddMed", "AddMed:name")
    /\ UNCHANGED << clock, tz, process, loop_vars >>

add_med_name(u, text) ==
    /\ fsm_state[u] = "AddMed:name"
    /\ LET name == strip(text)
       IN  IF ~validate_input_length(name, 100)
           THEN Reject(u)
           ELSE Advance(u, "name", name, "AddMed:dose")
    /\ UNCHANGED << clock, tz, process, loop_vars >>

add_med_dose(u, text) ==
    /\ fsm_state[u] = "AddMed:dose"
    /\ LET dose == strip(text)
       IN  IF ~validate_input_length(dose, 50)
           THEN Reject(u)
           ELSE Advance(u, "dose", dose, "AddMed:times")
    /\ UNCHANGED << clock, tz, process, loop_vars >>

add_med_times(u, text, fail) ==
    /\ fsm_state[u] = "AddMed:times"
    /\ LET data  == fsm_data[u]
           times == parse_times(text)
       IN  IF times_rejected(times)
           THEN RejectInTry(u, fail)
           ELSE IF fail = "store" \/ {"name", "dose"} \ (DOMAIN data) # {}
           THEN /\ Clear(u)
                /\ UNCHANGED db_vars
           ELSE /\ next_med_id <= MaxMeds
                /\ medications' = medications \cup
                       {Row(next_med_id, u, data["name"], data["dose"], join(times))}
                /\ next_med_id' = next_med_id + 1
                /\ Clear(u)
                /\ UNCHANGED << users, glucose_logs, pressure_logs, med_logs >>
    /\ UNCHANGED << clock, tz, process, loop_vars >>

\* callback "add_glucose"
glucose_start(u) ==
    /\ Trigger(u, "AddGlucose", "AddGlucose:value")
    /\ UNCHANGED << clock, tz, process, loop_vars >>

glucose_value(u, text, fail) ==
    /\ fsm_state[u] = "AddGlucose:value"
    /\ LET match == first_number(replace_comma(text))
       IN  IF match = <<>>
           THEN RejectInTry(u, fail)
           ELSE IF ~(0 <= float100(match) /\ float100(match) <= 50 * 100)
           THEN RejectInTry(u, fail)
           ELSE IF fail = "store"
           THEN /\ Clear(u)
                /\ UNCHANGED db_vars
           ELSE /\ Len(glucose_logs) < MaxReadings
                /\ glucose_logs' = Append(glucose_logs,
                       [user_id |-> u, mmol |-> float100(match),
                        mg |-> mmol_to_mg(float100(match))])
                /\ Clear(u)
                /\ UNCHANGED << users, medications, next_med_id, pressure_logs, med_logs >>
    /\ UNCHANGED << clock, tz, process, loop_vars >>

\* callback "add_pressure"
pressure_start(u) ==
    /\ Trigger(u, "AddPressure", "AddPressure:value")
    /\ UNCHANGED << clock, tz, process, loop_vars >>

pressure_value(u, text, fail) ==
    /\ fsm_state[u] = "AddPressure:value"
    /\ LET match == first_pressure(text)
       IN  IF match = <<>>
           THEN RejectInTry(u, fail)
           ELSE LET sys == int(match[1])
                    dia == int(match[2])
                IN  IF ~(50 <= sys /\ sys <= 250) \/ ~(30 <= dia /\ dia <= 150)
                    THEN RejectInTry(u, fail)
                    ELSE IF fail = "store"
                    THEN /\ Clear(u)
                         /\ UNCHANGED db_vars
                    ELSE /\ Len(pressure_logs) < MaxReadings
                         /\ pressure_logs' = Append(pressure_logs,
                                [user_id |-> u, sys |-> sys, dia |-> dia])
                         /\ Clear(u)
                         /\ UNCHANGED << users, medications, next_med_id, glucose_logs,
                                         med_logs >>
    /\ UNCHANGED << clock, tz, process, loop_vars >>

\* the session a handler without an FSMContext parameter leaves behind
session_untouched == [state |-> fsm_state, data |-> fsm_data]

\* callback "main_menu": the menu is shown again
back_to_main(u) ==
    /\ fsm_state' = session_untouched.state
    /\ fsm_data' = session_untouched.data
    /\ UNCHANGED << started, db_vars, clock, tz, process, loop_vars >>

\* /menu
cmd_menu(u) ==
    /\ fsm_state' = session_untouched.state
    /\ fsm_data' = session_untouched.data
    /\ UNCHANGED << started, db_vars, clock, tz, process, loop_vars >>

(***************************************************************************)
(* The dialogues of two users over an empty database                       *)
(***************************************************************************)
Event(op, u, text, fail) ==
    [op |-> op, user |-> u, text |-> text, arg |-> 0, fail |-> fail]

Init ==
    /\ fsm_state = [u \in Users |-> "none"]
    /\ fsm_data = [u \in Users |-> EmptyData]
    /\ started = [u \in Users |-> NoFlow]
    /\ users = [u \in {} |-> <<>>]
    /\ medications = {}
    /\ next_med_id = 1
    /\ glucose_logs = <<>>
    /\ pressure_logs = <<>>
    /\ med_logs = {}
    /\ tz = 180
    /\ process = Running(FALSE)
    /\ \E t \in LocalStarts : clock = t - tz * 60
    /\ pc = "sleep"
    /\ wake_at = clock
    /\ last_check_minute = <<>>
    /\ now = 0
    /\ meds = <<>>
    /\ idx = 0
    /\ sent = <<>>
    /\ tick = [state |-> "none", cause |-> "none", n |-> 0, suppressed |-> {},
               after_error |-> FALSE]
    /\ ev = NoEvent

StartCommand ==
    \E u \in NewUsers, fail \in {"none", "store"} :
        start(u, fail) /\ ev' = Event("start", u, <<>>, fail)

OnboardingName ==
    \E u \in NewUsers, text \in OnboardingTexts, fail \in {"none", "store"} :
        onboarding_name(u, text, fail) /\ ev' = Event("onboarding_name", u, text, fail)

AddMedStart ==
    \E u \in MedUsers : add_med_start(u) /\ ev' = Event("add_med_start", u, <<>>, "none")

AddMedName ==
    \E u \in MedUsers, text \in NameTexts :
        add_med_name(u, text) /\ ev' = Event("add_med_name", u, text, "none")

AddMedDose ==
    \E u \in MedUsers, text \in DoseTexts :
        add_med_dose(u, text) /\ ev' = Event("add_med_dose", u, text, "none")

AddMedTimes ==
    \E u \in MedUsers, text \in TimesTexts, fail \in Faults :
        add_med_times(u, text, fail) /\ ev' = Event("add_med_times", u, text, fail)

GlucoseStart ==
    \E u \in GlucoseUsers : glucose_start(u) /\ ev' = Event("glucose_start", u, <<>>, "none")

GlucoseValue ==
    \E u \in GlucoseUsers, text \in GlucoseTexts, fail \in Faults :
        glucose_value(u, text, fail) /\ ev' = Event("glucose_value", u, text, fail)

PressureStart ==
    \E u \in PressureUsers : pressure_start(u) /\ ev' = Event("pressure_start", u, <<>>, "none")

PressureValue ==
    \E u \in PressureUsers, text \in PressureTexts, fail \in Faults :
        pressure_value(u, text, fail) /\ ev' = Event("pressure_value", u, text, fail)

Next ==
    \/ StartCommand
    \/ OnboardingName
    \/ AddMedStart
    \/ AddMedName
    \/ AddMedDose
    \/ AddMedTimes
    \/ GlucoseStart
    \/ GlucoseValue
    \/ PressureStart
    \/ PressureValue

Spec == Init /\ [][Next]_vars

(***************************************************************************)
(* The ways into and out of the dialogues: the triggers, the first steps,  *)
(* the main menu, and a name that is blank                                 *)
(***************************************************************************)
BackToMain ==
    \E u \in MedUsers : back_to_main(u) /\ ev' = Event("back_to_main", u, <<>>, "none")

CmdMenu ==
    \E u \in MedUsers : cmd_menu(u) /\ ev' = Event("cmd_menu", u, <<>>, "none")

OnboardingBlank ==
    \E u \in NewUsers, fail \in {"none", "store"} :
        onboarding_name(u, TxtBlank, fail) /\ ev' = Event("onboarding_name", u, TxtBlank, fail)

NextMenu ==
    \/ StartCommand
    \/ OnboardingName
    \/ OnboardingBlank
    \/ AddMedStart
    \/ AddMedName
    \/ AddMedDose
    \/ GlucoseStart
    \/ PressureStart
    \/ BackToMain
    \/ CmdMenu

SpecMenu == Init /\ [][NextMenu]_vars

(***************************************************************************)
(* Claims about the dialogues                                              *)
(***************************************************************************)
SubmitOps ==
    {"onboarding_name", "add_med_name", "add_med_dose", "add_med_times", "glucose_value",
     "pressure_value"}

\* the text does not pass the validator of the step
Rejects(st, text) ==
    CASE st = "Onboarding:name" -> ~validate_input_length(strip(text), 50)
      [] st = "AddMed:name" -> ~validate_input_length(strip(text), 100)
      [] st = "AddMed:dose" -> ~validate_input_length(strip(text), 50)
      [] st = "AddMed:times" -> parse_times(text) = <<>>
      [] st = "AddGlucose:value" ->
            LET match == first_number(replace_comma(text))
            IN  match = <<>> \/ float100(match) < 0 \/ float100(match) > 50 * 100
      [] st = "AddPressure:value" ->
            LET match == first_pressure(text)
            IN  \/ match = <<>>
                \/ int(match[1]) < 50 \/ int(match[1]) > 250
                \/ int(match[2]) < 30 \/ int(match[2]) > 150
      [] OTHER -> FALSE

\* the flow a front-end event triggers, "none" when it triggers nothing
Triggers(e) ==
    CASE e.op = "add_med_start" -> "AddMed"
      [] e.op = "glucose_start" -> "AddGlucose"
      [] e.op = "pressure_start" -> "AddPressure"
      [] e.op = "start" ->
            IF e.fail = "none" /\ e.user \notin DOMAIN users THEN "Onboarding" ELSE "none"
      [] OTHER -> "none"

\* the prompt of step n of a flow, and the handler that takes its answer
StepState(flow, n) ==
    CASE flow = "Onboarding" -> "Onboarding:name"
      [] flow = "AddMed" -> <<"AddMed:name", "AddMed:dose", "AddMed:times">>[n + 1]
      [] flow = "AddGlucose" -> "AddGlucose:value"
      [] flow = "AddPressure" -> "AddPressure:value"

StepHandler(flow, n) ==
    CASE flow = "Onboarding" -> "onboarding_name"
      [] flow = "AddMed" -> <<"add_med_name", "add_med_dose", "add_med_times">>[n + 1]
      [] flow = "AddGlucose" -> "glucose_value"
      [] flow = "AddPressure" -> "pressure_value"

\* the keys of the first n steps of a flow
StepKeys(flow, n) ==
    IF flow = "AddMed" THEN {<<"name", "dose">>[k] : k \in 1..n} ELSE {}

Destroyed(u) == fsm_state'[u] = "none" /\ fsm_data'[u] = EmptyData

\* C6: in every flow and at every step, a submit whose text fails the validator
\* of the step leaves the session of the user as it was (same state, same field
\* map) and writes nothing to the store
C6_RejectedSubmitKeepsSession ==
    [][(ev'.op \in SubmitOps /\ Rejects(fsm_state[ev'.user], ev'.text))
        => UNCHANGED << fsm_state, fsm_data, db_vars >>]_vars

\* C7: a session that took n successful submits since its flow was started holds
\* exactly the keys of the first n steps of the flow, none right after the start
C7_FieldMapHoldsStepKeys ==
    \A u \in Users :
        started[u].flow # "none"
            => DOMAIN fsm_data[u] = StepKeys(started[u].flow, started[u].n)

C9_CompletionPersistsOnce ==
    [][LET e  == ev'
           u  == ev'.user
           st == fsm_state[ev'.user]
       IN  (e.op \in SubmitOps /\ ~Rejects(st, e.text) /\ e.fail # "store") =>
             CASE st = "Onboarding:name" ->
                    /\ u \notin DOMAIN users
                    /\ users' = [x \in (DOMAIN users) \cup {u} |->
                                    IF x = u THEN strip(e.text) ELSE users[x]]
                    /\ UNCHANGED << medications, glucose_logs, pressure_logs, med_logs >>
                    /\ Destroyed(u)
               [] st = "AddMed:times" ->
                    /\ \E row \in medications' \ medications :
                          /\ medications' = medications \cup {row}
                          /\ row.user_id = u
                          /\ row.name = fsm_data[u]["name"]
                          /\ row.dose = fsm_data[u]["dose"]
                          /\ row.times = join(parse_times(e.text))
                    /\ UNCHANGED << users, glucose_logs, pressure_logs, med_logs >>
                    /\ Destroyed(u)
               [] st = "AddGlucose:value" ->
                    /\ Len(glucose_logs') = Len(glucose_logs) + 1
                    /\ SubSeq(glucose_logs', 1, Len(glucose_logs)) = glucose_logs
                    /\ glucose_logs'[Len(glucose_logs')].user_id = u
                    /\ glucose_logs'[Len(glucose_logs')].mmol
                          = float100(first_number(replace_comma(e.text)))
                    /\ UNCHANGED << users, medications, pressure_logs, med_logs >>
                    /\ Destroyed(u)
               [] st = "AddPressure:value" ->
                    /\ Len(pressure_logs') = Len(pressure_logs) + 1
                    /\ SubSeq(pressure_logs', 1, Len(pressure_logs)) = pressure_logs
                    /\ pressure_logs'[Len(pressure_logs')]
                          = [user_id |-> u, sys |-> int(first_pressure(e.text)[1]),
                             dia |-> int(first_pressure(e.text)[2])]
                    /\ UNCHANGED << users, medications, glucose_logs, med_logs >>
                    /\ Destroyed(u)
               [] st = "AddMed:name" ->
                    /\ UNCHANGED db_vars
                    /\ fsm_state'[u] = "AddMed:dose"
                    /\ fsm_data'[u]["name"] = strip(e.text)
               [] st = "AddMed:dose" ->
                    /\ UNCHANGED db_vars
                    /\ fsm_state'[u] = "AddMed:times"
                    /\ fsm_data'[u]["dose"] = strip(e.text)
                    /\ fsm_data'[u]["name"] = fsm_data[u]["name"]]_vars

\* the times step has just completed: the event is stored and the session is gone
C9_Witness ==
    /\ ev.op = "add_med_times"
    /\ ev.fail # "store"
    /\ parse_times(ev.text) # <<>>
    /\ fsm_state[ev.user] = "none"
    /\ fsm_data[ev.user] = EmptyData
    /\ \E m \in medications : m.user_id = ev.user /\ m.times = join(parse_times(ev.text))

IsTimeOfDay(t) ==
    Len(t) = 5 /\ IsDigit(t[1]) /\ IsDigit(t[2]) /\ t[3] = ":" /\ IsDigit(t[4]) /\ IsDigit(t[5])

\* C10: every stored event has at least one time of day; a times submission with
\* no H:MM or HH:MM in it writes nothing and leaves the session at the times step
C10_EveryEventHasATime ==
    [][/\ \A m \in medications' : \E k \in DOMAIN times_list(m) : IsTimeOfDay(times_list(m)[k])
       /\ (ev'.op = "add_med_times" /\ parse_times(ev'.text) = <<>>)
            => /\ UNCHANGED db_vars
               /\ fsm_state'[ev'.user] = "AddMed:times"]_vars

(***************************************************************************)
(* The times prompt on its own: a user whose name and dose are captured    *)
(* answers the prompt of add_med_dose with any short text                  *)
(***************************************************************************)
\* the longest text typed, in characters
MaxTyped == 5

TimeAlphabet == {"0", "7", ":"}

TypedTexts == (UNION {[1..n -> TimeAlphabet] : n \in 1..MaxTyped}) \cup {TxtTimes}

InitTimes ==
    /\ fsm_state = [u \in Users |-> IF u = 1 THEN "AddMed:times" ELSE "none"]
    /\ fsm_data = [u \in Users |->
                      IF u = 1 THEN [name |-> <<"A">>, dose |-> <<"1">>] ELSE EmptyData]
    /\ started = [u \in Users |->
                     IF u = 1 THEN [flow |-> "AddMed", n |-> 2, replaced |-> FALSE,
                                    taken |-> [name |-> <<"A">>, dose |-> <<"1">>]]
                     ELSE NoFlow]
    /\ users = [u \in Users |-> <<"U">>]
    /\ medications = {}
    /\ next_med_id = 1
    /\ glucose_logs = <<>>
    /\ pressure_logs = <<>>
    /\ med_logs = {}
    /\ tz = 180
    /\ process = Running(FALSE)
    /\ \E t \in LocalStarts : clock = t - tz * 60
    /\ pc = "sleep"
    /\ wake_at = clock
    /\ last_check_minute = <<>>
    /\ now = 0
    /\ meds = <<>>
    /\ idx = 0
    /\ sent = <<>>
    /\ tick = [state |-> "none", cause |-> "none", n |-> 0, suppressed |-> {},
               after_error |-> FALSE]
    /\ ev = NoEvent

TypeTimes ==
    \E text \in TypedTexts, fail \in Faults :
        add_med_times(1, text, fail) /\ ev' = Event("add_med_times", 1, text, fail)

NextTimes == TypeTimes

SpecTimes == InitTimes /\ [][NextTimes]_vars

\* the text holds a digit, a colon and two digits in a row (H:MM, hence also HH:MM)
HasTimeSubstring(s) ==
    \E i \in 1..Len(s) :
        DigitAt(s, i) /\ CharAt(s, i + 1, ":") /\ DigitAt(s, i + 2) /\ DigitAt(s, i + 3)

\* C11: for a text with an H:MM or HH:MM in it parse_times returns a non-empty list
\* of zero-padded HH:MM entries without duplicates, and for a text with none it
\* returns the empty list
C11_ParseTimesCanonicalSet ==
    ev.op = "add_med_times" =>
        LET r == parse_times(ev.text)
        IN  IF HasTimeSubstring(ev.text)
            THEN /\ r # <<>>
                 /\ \A i \in DOMAIN r : IsTimeOfDay(r[i])
                 /\ \A i, j \in DOMAIN r : i # j => r[i] # r[j]
            ELSE r = <<>>

\* C12: every time of every stored event has its hour in 0..23 and its minute in
\* 0..59
C12_StoredTimesAreValid ==
    \A m \in medications : \A k \in DOMAIN times_list(m) :
        LET t == times_list(m)[k]
        IN  /\ IsTimeOfDay(t)
            /\ int(SubSeq(t, 1, 2)) \in 0..23
            /\ int(SubSeq(t, 4, 5)) \in 0..59

(***************************************************************************)
(* Claims about errors, cancelling and the validators                      *)
(***************************************************************************)
\* C13: a failure of the store while an accepted submit is handled writes nothing
\* and leaves the session of the user (state and field map) as it was
C13_StoreErrorKeepsSession ==
    [][(ev'.op \in SubmitOps /\ ev'.fail = "store"
            /\ ~Rejects(fsm_state[ev'.user], ev'.text))
        => UNCHANGED << fsm_state, fsm_data, db_vars >>]_vars

\* the operations a user leaves a dialogue by
CancelOps == {"back_to_main", "cmd_menu", "start"}

\* the session the operation leaves behind when called now
SessionAfter(op, u) ==
    IF op = "start" /\ u \notin DOMAIN users
    THEN [state |-> set_state(u, "Onboarding:name"), data |-> fsm_data]
    ELSE session_untouched

\* C16: one of the operations is a cancel: called in any state, with a session at
\* any step or with none (a second call), it leaves the user without an active
\* flow and with an empty field map
C16_CancelDestroysSession ==
    \E op \in CancelOps : \A u \in MedUsers :
        /\ SessionAfter(op, u).state[u] = "none"
        /\ SessionAfter(op, u).data[u] = EmptyData

\* C19: the name step of Onboarding accepts a text iff it is not empty after
\* trimming and at most 50 characters long; a rejected text stores no profile and
\* leaves the session at the name step
C19_OnboardingNameNonEmpty ==
    [][ev'.op = "onboarding_name" =>
        LET u    == ev'.user
            name == strip(ev'.text)
        IN  IF Len(name) >= 1 /\ Len(name) <= 50
            THEN ev'.fail = "none" => (u \in DOMAIN users' /\ users'[u] = name)
            ELSE /\ UNCHANGED db_vars
                 /\ fsm_state'[u] = "Onboarding:name"
                 /\ fsm_data'[u] = fsm_data[u]]_vars

\* the text holds two runs of 2 or 3 digits around a slash, blanks allowed beside
\* the slash, that read as a systolic value in 50..250 and a diastolic in 30..150
ContainsValidPair(s) ==
    \E i, j, p, q, l \in 1..Len(s) :
        /\ j - i \in 1..2 /\ \A k \in i..j : IsDigit(s[k])
        /\ p > j /\ \A k \in (j + 1)..(p - 1) : IsSpace(s[k])
        /\ s[p] = "/"
        /\ q > p /\ \A k \in (p + 1)..(q - 1) : IsSpace(s[k])
        /\ l - q \in 1..2 /\ \A k \in q..l : IsDigit(s[k])
        /\ int(SubSeq(s, i, j)) \in 50..250
        /\ int(SubSeq(s, q, l)) \in 30..150

\* C18: every stored pressure reading has sys in 50..250 and dia in 30..150; a
\* submit at the pressure step stores a reading, and then destroys the session,
\* only if the text holds a pair in those ranges, and otherwise stores nothing and
\* keeps the session; "120/80" is accepted when nothing fails, "300/80" never is
C18_PressureInRangeOrRejected ==
    [][ev'.op = "pressure_value" =>
        LET u        == ev'.user
            text     == ev'.text
            accepted == pressure_logs' # pressure_logs
        IN  /\ \A k \in 1..Len(pressure_logs') :
                   /\ pressure_logs'[k].sys \in 50..250
                   /\ pressure_logs'[k].dia \in 30..150
            /\ accepted => (ContainsValidPair(text) /\ Destroyed(u))
            /\ ~ContainsValidPair(text) =>
                   /\ UNCHANGED db_vars
                   /\ fsm_state'[u] = fsm_state[u]
                   /\ fsm_data'[u] = fsm_data[u]
            /\ (text = TxtPressure /\ ev'.fail = "none") => accepted
            /\ text = TxtPressureHigh => ~accepted]_vars

(***************************************************************************)
(* Claims about the ticks of the scheduler                                 *)
(***************************************************************************)
\* C14: the sleep a scan ends with lasts between 1 and 60 seconds, and the loop
\* wakes at the start of the wall-clock minute after the one the sleep begins in,
\* however long the scan took
C14_WakeOnNextMinute ==
    [][(pc' = "sleep" /\ tick' # tick /\ tick'.state \in {"done", "skipped"})
        => /\ wake_at' - clock \in 1..60
           /\ wake_at' + tz * 60
                  = (((clock + tz * 60) \div SecondsPerMinute) + 1) * SecondsPerMinute]_vars

\* the rows send_reminder was invoked for by the tick that sampled the current now
TickInvocations == {sent[i].med_id : i \in {k \in 1..Len(sent) : sent[k].at = now}}

\* what a pass over the current tables at instant nowv notifies
DueAt(nowv) ==
    {m.id : m \in {r \in medications :
                       /\ is_due(r, format_time_for_display(nowv))
                       /\ ~recent_ack(r, nowv)}}

\* the tables are as the tick that sampled the current now read them: the rows it
\* fetched are the rows a fetch returns now, and every acknowledgement was recorded
\* before the tick began
StoreAsRead ==
    /\ meds = fetch_meds(format_time_for_display(now))
    /\ \A l \in med_logs : ToSeconds(l.taken_at) + tz * 60 < now

AcksFor(m) ==
    {l \in med_logs : l.user_id = m.user_id /\ l.med_name = m.name \o <<" ">> \o m.dose}

\* C20: the dedup lookup goes by name: of two rows of one user with the same name,
\* an acknowledgement of the first keeps every tick inside the 15 minutes after it
\* from invoking send_reminder for the second
C20_AckSuppressesSameName ==
    \A e1, e2 \in medications :
        (e1.id # e2.id /\ e1.user_id = e2.user_id /\ e1.name = e2.name)
        => \A l \in AcksFor(e1) : \A i \in 1..Len(sent) :
               sent[i].med_id = e2.id
               => ~ ( /\ ToSeconds(l.taken_at) < sent[i].at - tz * 60
                      /\ sent[i].at - tz * 60 < ToSeconds(l.taken_at) + DedupMinutes * 60 )

(***************************************************************************)
(* The process from on_startup to its exit.  on_startup starts             *)
(* reminder_loop with asyncio.create_task and keeps no handle of the task. *)
(***************************************************************************)
\* the event loop runs: tasks are resumed, time passes
loop_running == process.state \in {"running", "closing"}

\* SIGINT or SIGTERM under dp.start_polling, whose signal handlers stop the
\* polling: start_polling returns and the finally clause awaits on_shutdown
stop_polling ==
    /\ ~process.use_webhook
    /\ process.state = "running"
    /\ process' = [process EXCEPT !.state = "closing"]
    /\ UNCHANGED << fsm_vars, db_vars, clock, tz, loop_vars, ev >>

\* what asyncio.run does once the main coroutine is over: the tasks still pending
\* are cancelled and waited for, and the process ends
asyncio_run_exit ==
    /\ process' = [process EXCEPT !.state = "exited"]
    /\ pc' = "cancelled"
    /\ UNCHANGED << fsm_vars, db_vars, clock, tz, wake_at, last_check_minute, now,
                    meds, idx, sent, tick, ev >>

\* on_shutdown: bot.session.close() returns; main_polling returns with it
on_shutdown ==
    /\ process.state = "closing"
    /\ asyncio_run_exit

\* SIGINT under main_webhook: KeyboardInterrupt cancels the main task, which waits
\* on asyncio.Event().wait(); on_shutdown is not called
webhook_interrupt ==
    /\ process.use_webhook
    /\ process.state = "running"
    /\ asyncio_run_exit

\* SIGTERM under main_webhook: no handler is installed, the process ends at once
webhook_terminate ==
    /\ process.use_webhook
    /\ process.state = "running"
    /\ process' = [process EXCEPT !.state = "killed"]
    /\ UNCHANGED << fsm_vars, db_vars, clock, tz, loop_vars, ev >>

InitShutdown == InitLoop /\ \E use_webhook \in BOOLEAN : process = Running(use_webhook)

TaskStep == loop_running /\ LoopStep

SendStep == loop_running /\ DeliveryStep

ClockStep == loop_running /\ TimeStep

NextShutdown ==
    \/ TaskStep
    \/ SendStep
    \/ ClockStep
    \/ stop_polling
    \/ on_shutdown
    \/ webhook_interrupt
    \/ webhook_terminate

SpecShutdown == InitShutdown /\ [][NextShutdown]_vars

\* C17: when the process has ended, the task of reminder_loop has been stopped and
\* waited for: it is not in a scan, and from then on send_reminder is not invoked
C17_LoopStoppedBeforeExit ==
    /\ [](process.state \in {"exited", "killed"} => pc = "cancelled")
    /\ [][process.state \in {"exited", "killed"} => sent' = sent]_vars

\* the scan of the last finished tick, from the sampling of now to the call of
\* asyncio.sleep, as the clock shows it: the whole seconds read at its two ends
\* differ by ScanSeconds, so the scan took more than ScanSeconds - 1 and less
\* than ScanSeconds + 1 seconds
ScanSeconds == (wake_at - Max(1, SecondsPerMinute - (now % 60))) + tz * 60 - now

\* C22: while no tick raises an error and every scan ends in under 60 seconds (so
\* the seconds read at its ends differ by 60 at most: 07:59:30.9 to 08:00:30.1 is
\* such a scan), the ticks scan the minutes one after the other: the first tick
\* scans the minute the process started in, and the tick after a finished tick
\* samples a now in the next wall-clock minute and scans it
C22_EveryMinuteScannedOnce ==
    [][(tick'.n = tick.n + 1 /\ tick'.state # "error")
        => /\ tick.state = "none" => tick'.state \in {"scanning", "done"}
           /\ (tick.state \in {"done", "skipped"} /\ ScanSeconds - 1 < 60)
              => /\ now' \div 60 = (now \div 60) + 1
                 /\ tick'.state \in {"scanning", "done"}]_vars

(***************************************************************************)
(* Deleting rows while the scheduler runs                                  *)
(***************************************************************************)
\* ids a "del_med_<id>" callback can carry: the stored rows' and one never given out
DeleteIds == 1..3

DeleteRequest ==
    \E u \in Users, med_id \in DeleteIds, fail \in {"none", "reply"} :
        /\ delete_med(u, med_id, fail)
        /\ ev' = [Event("delete_med", u, <<>>, fail) EXCEPT !.arg = med_id]

NextDelete == LoopStep \/ DeliveryStep \/ TimeStep \/ DeleteRequest

SpecDelete == InitSched /\ [][NextDelete]_vars

\* C21: send_reminder is invoked only for rows that are in the table at the time
\* of the invocation: never for a row delete_med has removed, also when the row
\* was removed while the scan awaited the delivery for another row
C21_NoReminderAfterDelete ==
    [][Len(sent') > Len(sent)
        => sent'[Len(sent')].med_id \in {m.id : m \in medications}]_vars

\* C24: a delete request changes the table only when the requesting user owns the
\* row of the id it carries, and then removes that row and nothing else; a request
\* with the id of another user's row or of no row leaves the table as it was, and
\* a request of the owner whose reply is delivered removes the row
C24_DeleteOnlyOwnRow ==
    [][ev'.op = "delete_med" =>
        LET owned == {m \in medications : m.id = ev'.arg /\ m.user_id = ev'.user}
        IN  /\ owned = {} => medications' = medications
            /\ medications' # medications =>
                   /\ Cardinality(owned) = 1
                   /\ medications' = medications \ owned
            /\ (owned # {} /\ ev'.fail = "none") => medications' = medications \ owned
            /\ UNCHANGED << users, next_med_id, glucose_logs, pressure_logs, med_logs >>]_vars

\* C24 witness: a request with the id of another user's row was handled and the
\* row is still in the table, after a request of an owner removed the other row
C24_Witness ==
    /\ ev.op = "delete_med"
    /\ \E m \in medications : m.id = ev.arg /\ m.user_id # ev.user
    /\ Cardinality(medications) = 1

(***************************************************************************)
(* The add-medication dialogue run more than once, with different answers  *)
(***************************************************************************)
TxtOtherName == <<"B">>

TxtOtherDose == <<"2">>

AddMedOtherName ==
    \E u \in MedUsers :
        add_med_name(u, TxtOtherName) /\ ev' = Event("add_med_name", u, TxtOtherName, "none")

AddMedOtherDose ==
    \E u \in MedUsers :
        add_med_dose(u, TxtOtherDose) /\ ev' = Event("add_med_dose", u, TxtOtherDose, "none")

NextAddMed ==
    \/ StartCommand
    \/ OnboardingName
    \/ AddMedStart
    \/ AddMedName
    \/ AddMedOtherName
    \/ AddMedDose
    \/ AddMedOtherDose
    \/ AddMedTimes
    \/ GlucoseStart
    \/ PressureStart

SpecAddMed == Init /\ [][NextAddMed]_vars

\* C23: a session at the times step of the add-medication flow holds a name and a
\* dose, and they are the ones submitted since the flow was last triggered; the
\* row stored on completion carries that name and that dose
C23_TimesStepHoldsCurrentRun ==
    /\ [](\A u \in Users :
             fsm_state[u] = "AddMed:times"
             => /\ started[u].flow = "AddMed"
                /\ DOMAIN started[u].taken = {"name", "dose"}
                /\ {"name", "dose"} \subseteq DOMAIN fsm_data[u]
                /\ fsm_data[u]["name"] = started[u].taken["name"]
                /\ fsm_data[u]["dose"] = started[u].taken["dose"])
    /\ [][(ev'.op = "add_med_times" /\ medications' # medications)
          => \E r \in medications' :
                 /\ medications' = medications \cup {r}
                 /\ r.user_id = ev'.user
                 /\ r.name = started[ev'.user].taken["name"]
                 /\ r.dose = started[ev'.user].taken["dose"]]_vars

\* C23 witness: the flow was entered from another flow's session, the other name
\* and the other dose were submitted, and the session is at the times step while a
\* row of an earlier run with the first name is stored
C23_Witness ==
    /\ fsm_state[1] = "AddMed:times"
    /\ started[1].replaced
    /\ fsm_data[1]["name"] = TxtOtherName
    /\ fsm_data[1]["dose"] = TxtOtherDose
    /\ \E m \in medications : m.name # TxtOtherName

====
